---- MODULE Spec2Model ----
(***************************************************************************)
(* The plugin engine of projects/engine/src/engine/next-gen-engine.ts.     *)
(*                                                                         *)
(* The engine's three tables (plugins, events, listeners) are declared     *)
(* without an initializer in the class; the model starts them as empty     *)
(* objects, which is what every method of the class assumes.               *)
(*                                                                         *)
(* An async method is a task whose pc names the await it is suspended at;  *)
(* the code between two awaits is one atomic action. The tasks are kept as *)
(* a bag: two calls with the same arguments at the same await are alike.   *)
(***************************************************************************)
EXTENDS Integers, Sequences, FiniteSets, Bags, TLC

\* ------------------------------------------------------------------ bounds
\* Number of callMethod invocations.
MaxCalls == 1
\* Number of activatePlugin / deactivatePlugin invocations made from outside,
\* for each plugin.
MaxLifecycles == 3
\* Number of emit() invocations.
MaxEmits == 2
\* Number of 'message' events the window of the WebviewConnector receives.
MaxMessages == 3

\* ------------------------------------------------------------------ values
Manager == "manager"
Names == {"manager", "A", "B"}
\* The plugins the surrounding application registers and drives.
Plugins == {"A", "B"}
\* The listener name activateManager subscribes under.
Root == "__root__"
\* Values the free identifier `name` of addListener can have: the global is
\* not declared (the read throws ReferenceError), it is the window's name
\* (empty by default), or the window has been given the name of a plugin.
Undeclared == "<undeclared>"
Blank == ""
GlobalNameValues == {Undeclared, Blank, "A"}
\* Everything that can index this.events or sit in a listener list.
ListenerNames == Names \cup {Root, Blank}

Methods == {"m", "k"}
Handles == {1, 2}
NoHandle == 0
\* profile.methods of the handle `h` a caller may register under `name`.
HandleMethods(name, h) ==
    IF name = Manager THEN {}
    ELSE IF name = "A" THEN (IF h = 1 THEN {"m"} ELSE {"m", "k"})
    ELSE (IF h = 1 THEN {"k"} ELSE {})

PluginEvents == {"ev"}
ManagerEvents == {"activated", "deactivated"}
Payloads == {"p1", "p2"}
CbIds == {"cb1", "cb2"}
\* The callback that emits again from inside itself.
ReCb == "cbRe"

\* A stored callback: `once` marks the wrapper listenOnce builds, which closes
\* over the listener it was built for (owner).
Cb == [id : CbIds \cup {ReCb, "activatePlugin", "deactivatePlugin"}, once : BOOLEAN, owner : ListenerNames]
NoCb == [id |-> "none", once |-> FALSE, owner |-> Blank]

\* utils.listenEvent: the composite key of (emitter, event).
listenEvent(emitter, event) == <<emitter, event>>
EventKeys == ({"B"} \X PluginEvents) \cup ({Manager} \X ManagerEvents)
\* The events plugins subscribe to.
SubKeys == {<<"B", "ev">>, <<Manager, "activated">>}

NoProfile == [name |-> Blank, methods |-> {}, known |-> FALSE]

\* Policies the PermissionAuthority may follow: pairs <<from, to>>.
AllPairs == Names \X Names
OnlyAB == {<<"A", "B">>}
Policies == {[call |-> AllPairs, activate |-> AllPairs],
             [call |-> OnlyAB, activate |-> AllPairs],
             [call |-> AllPairs, activate |-> OnlyAB]}

VARIABLES
    plugins,        \* Engine.plugins: name -> handle (NoHandle: absent)
    events,         \* Engine.events: listener -> (event key -> callback)
    hasEvents,      \* the listeners for which this.events[listener] exists
    listeners,      \* Engine.listeners: event key -> list of names
    hasListeners,   \* the event keys for which this.listeners[key] exists
    caps,           \* per plugin: the injected call/on/once/off/emit
    app,            \* per plugin: plugin.app (the snapshot) or absent
    profiles,       \* PermissionAuthority: name -> profile
    actives,        \* PermissionAuthority: the names flagged active
    callPolicy,     \* PermissionAuthority: who may call whom
    activatePolicy, \* PermissionAuthority: who may activate whom
    globalName,     \* the value of the free identifier `name`
    tasks,          \* the async operations, settled ones included: a bag
    activateCount,  \* per plugin: invocations of its activate hook
    deactivateCount,\* per plugin: invocations of its deactivate hook
    requests,       \* addRequest invocations: <<from, target, method>>
    registrations,  \* onRegistration invocations: <<name, handle>>
    delivered,      \* callback invocations: <<owner, id, payload>> -> count
    emits,          \* number of emit() invocations so far
    refused,        \* the names a register() threw AlreadyRegistered for
    constructed,    \* WebviewConnector: "no", "yes", or "threw" in the constructor
    isVscode,       \* WebviewConnector.isVscode
    origin,         \* WebviewConnector.origin
    source,         \* WebviewConnector.source
    listening,      \* whether on(cb) has added its 'message' listener
    checking,       \* the events whose listener awaits checkOrigin
    handled,        \* the events whose data was passed to cb
    dropped,        \* the events the listener returned on at line 48
    posted,         \* the postMessage calls made by send
    received        \* number of 'message' events so far

vars == <<plugins, events, hasEvents, listeners, hasListeners, caps, app,
          profiles, actives, callPolicy, activatePolicy, globalName, tasks,
          activateCount, deactivateCount, requests, registrations, delivered,
          emits, refused, constructed, isVscode, origin, source, listening,
          checking, handled, dropped, posted, received>>

engineVars == <<plugins, caps, app, profiles, actives, tasks, activateCount,
                deactivateCount, requests, registrations>>
registryVars == <<events, hasEvents, listeners, hasListeners, delivered>>
webviewVars == <<constructed, isVscode, origin, source, listening, checking,
                 handled, dropped, posted, received>>
fixedVars == <<callPolicy, activatePolicy, globalName, webviewVars>>

\* ------------------------------------------------------- the event registry
\* The registry as one value, so that a callback can change it during a
\* broadcast. err: the error the operation threw, "none" if it returned.
\* spawn: the operations the manager callbacks started.
Registry == [ev |-> events, he |-> hasEvents, ls |-> listeners,
             hl |-> hasListeners, dl |-> delivered, spawn |-> <<>>,
             err |-> "none"]

EmptyTable == [k \in EventKeys |-> NoCb]

Filter(list, drop) == SelectSeq(list, LAMBDA x : x # drop)
Includes(list, x) == \E i \in 1..Len(list) : list[i] = x

\* Engine.addListener. Line 62-63 test and push the free identifier `name`,
\* not the parameter `listener`.
AddListener(R, listener, emitter, event, cb) ==
    LET key == listenEvent(emitter, event) IN
    IF listener \notin R.he THEN [R EXCEPT !.err = "TypeError"]
    ELSE
      LET R1 == IF R.ev[listener][key] = NoCb
                THEN [R EXCEPT !.ev[listener][key] = cb] ELSE R
          R2 == IF key \notin R1.hl
                THEN [R1 EXCEPT !.hl = @ \cup {key}, !.ls[key] = <<>>] ELSE R1
      IN IF globalName = Undeclared THEN [R2 EXCEPT !.err = "ReferenceError"]
         ELSE IF Includes(R2.ls[key], globalName) THEN R2
         ELSE [R2 EXCEPT !.ls[key] = Append(@, globalName)]

\* Engine.removeListener.
RemoveListener(R, listener, emitter, event) ==
    LET key == listenEvent(emitter, event) IN
    IF key \notin R.hl THEN [R EXCEPT !.err = "TypeError"]
    ELSE
      LET R1 == [R EXCEPT !.ls[key] = Filter(@, listener)] IN
      IF listener \notin R1.he THEN [R1 EXCEPT !.err = "TypeError"]
      ELSE [R1 EXCEPT !.ev[listener][key] = NoCb]

\* Engine.listenOnce: addListener with the self-removing wrapper.
ListenOnce(R, listener, emitter, event, cb) ==
    AddListener(R, listener, emitter, event,
                [id |-> cb, once |-> TRUE, owner |-> listener])

\* The call of a stored callback with `payload`. The callback ReCb emits
\* the event it is being told of again, the first time it runs, through the
\* emitter's emit; the wrapper of listenOnce calls removeListener after the
\* callback has returned.
RECURSIVE Invoke(_, _, _, _, _)
RECURSIVE Deliver(_, _, _, _, _)
RECURSIVE Broadcast(_, _, _, _)

Invoke(R, cb, emitter, event, payload) ==
    IF cb.id = "activatePlugin"
    THEN [R EXCEPT !.spawn = Append(@, [kind |-> "activate", name |-> payload])]
    ELSE IF cb.id = "deactivatePlugin"
    THEN [R EXCEPT !.spawn = Append(@, [kind |-> "deactivate", name |-> payload])]
    ELSE
      LET R1 == [R EXCEPT !.dl[<<cb.owner, cb.id, payload>>] = @ + 1]
          R2 == IF cb.id = ReCb /\ R1.dl[<<cb.owner, cb.id, payload>>] = 1
                THEN Broadcast(R1, emitter, event, payload) ELSE R1
      IN IF R2.err # "none" THEN R2
         ELSE IF cb.once THEN RemoveListener(R2, cb.owner, emitter, event)
         ELSE R2

\* The forEach of broadcast over the list it started with.
Deliver(R, list, emitter, event, payload) ==
    LET key == listenEvent(emitter, event) IN
    IF list = <<>> \/ R.err # "none" THEN R
    ELSE
      LET l == Head(list) IN
      IF l \notin R.he THEN [R EXCEPT !.err = "TypeError"]
      ELSE IF R.ev[l][key] = NoCb THEN [R EXCEPT !.err = "InternalConsistency"]
      ELSE Deliver(Invoke(R, R.ev[l][key], emitter, event, payload),
                   Tail(list), emitter, event, payload)

\* Engine.broadcast.
Broadcast(R, emitter, event, payload) ==
    LET key == listenEvent(emitter, event) IN
    IF key \notin R.hl THEN R
    ELSE Deliver(R, R.ls[key], emitter, event, payload)

\* The forEach of deactivatePlugin that splices `name` out of the list it is
\* walking: the index moves on after a removal.
RECURSIVE SpliceEach(_, _, _)
SpliceEach(list, i, name) ==
    IF i > Len(list) THEN list
    ELSE IF list[i] = name
    THEN SpliceEach(SubSeq(list, 1, i - 1) \o SubSeq(list, i + 1, Len(list)), i + 1, name)
    ELSE SpliceEach(list, i + 1, name)

\* ------------------------------------------------- the PermissionAuthority
\* manager.getProfile(name): the stored profile; not `known` when it fails.
GetProfile(name) == profiles[name]
\* manager.isActive(name).
IsActive(name) == name \in actives
\* manager.canCall(from, to, method) and manager.canActivate(from, to).
CanCall(from, to, method) == <<from.name, to.name>> \in callPolicy
CanActivate(from, to) == <<from.name, to.name>> \in activatePolicy
\* manager.toggleActive(name): flips the flag and emits the event through
\* the engine's broadcast; the registry after the emission.
ToggleEvent(name) == IF name \in actives THEN "deactivated" ELSE "activated"
ToggleActives(name) ==
    IF name \in actives THEN actives \ {name} ELSE actives \cup {name}
ToggleRegistry(name) == Broadcast(Registry, Manager, ToggleEvent(name), name)

\* The manager replaces the methods of the profile it holds for `name` by
\* those of handle h.
UpdateProfile(name, h) ==
    /\ profiles[name].known
    /\ profiles[name].methods # HandleMethods(name, h)
    /\ profiles' = [profiles EXCEPT ![name].methods = HandleMethods(name, h)]
    /\ UNCHANGED <<plugins, caps, app, actives, tasks, activateCount,
                   deactivateCount, requests, registrations, emits>>
    /\ UNCHANGED registryVars
    /\ UNCHANGED <<fixedVars, refused>>

\* ------------------------------------------------------------------ tasks
NoSnapshot == [n \in Names |-> [present |-> FALSE, methods |-> {}]]
NoApp == [exists |-> FALSE, of |-> NoSnapshot]
NoCaps == [call |-> "none", on |-> "none", once |-> "none", off |-> "none",
           emit |-> "none", createApp |-> "none"]
LiveCaps == [call |-> "live", on |-> "live", once |-> "live", off |-> "live",
             emit |-> "live", createApp |-> "none"]

Task(kind, caller, target, method) ==
    [kind |-> kind, pc |-> "start", caller |-> caller, target |-> target,
     method |-> method, to |-> NoProfile, from |-> NoProfile, ans |-> FALSE,
     found |-> "unknown", snap |-> NoSnapshot, err |-> "none",
     result |-> "pending", via |-> "direct"]

\* A settled task: only what it was and how it ended is kept.
Settle(t, result) ==
    [Task(t.kind, t.caller, t.target, t.method) EXCEPT
        !.pc = "done", !.found = t.found, !.result = result, !.via = t.via]

\* The synchronous head of activatePlugin(name) / deactivatePlugin(name),
\* up to `await this.manager.isActive(name)`.
StartLifecycle(kind, name) ==
    IF name \notin Names THEN Settle(Task(kind, Blank, Blank, "-"), "NotRegistered")
    ELSE IF plugins[name] = NoHandle
    THEN Settle(Task(kind, name, name, "-"), "NotRegistered")
    ELSE [Task(kind, name, name, "-") EXCEPT !.pc = "isActive", !.ans = IsActive(name)]

\* The operations the manager callbacks started during a broadcast.
RECURSIVE Spawned(_)
Spawned(spawn) ==
    IF spawn = <<>> THEN EmptyBag
    ELSE SetToBag({StartLifecycle(Head(spawn).kind, Head(spawn).name)})
         (+) Spawned(Tail(spawn))

\* The bag of tasks with task u started, and with task t having become u.
Add(u) == tasks (+) SetToBag({u})
Replace(t, u) == (tasks (-) SetToBag({t})) (+) SetToBag({u})
Pending == BagToSet(tasks)

\* The registry variables after an operation that ended in registry value R.
SetRegistry(R) ==
    /\ events' = R.ev
    /\ hasEvents' = R.he
    /\ listeners' = R.ls
    /\ hasListeners' = R.hl
    /\ delivered' = R.dl

Started(kinds) ==
    BagCardinality([t \in {u \in Pending : u.kind \in kinds} |-> tasks[t]])
CanStartCall == Started({"call"}) < MaxCalls
CanStartLifecycle(name) ==
    BagCardinality([t \in {u \in Pending : u.kind \in {"activate", "deactivate"}
                                           /\ u.target = name} |-> tasks[t]])
        < MaxLifecycles

\* ------------------------------------------------------ WebviewConnector
\* The origins a 'message' event can carry; checkOrigin accepts the first two.
GoodOrigins == {"https://remix.ethereum.org", "https://remix-alpha.ethereum.org"}
Origins == GoodOrigins \cup {"https://evil.example"}
NoOrigin == "<undefined>"
Wildcard == "*"

\* The windows: the parent of the iframe, the window of each origin, the
\* object acquireVsCodeApi() returns, and the missing event.source.
ParentWindow == <<"window", "parent">>
VscodeApi == <<"api", "vscode">>
NoWindow == <<"null", "null">>
WindowOf(o) == <<"window", o>>

Messages == {[action |-> "request", key |-> "handshake"],
             [action |-> "request", key |-> "compile"]}
NoData == [action |-> "none", key |-> "none"]

\* The events: a message of the window of each origin, an event without a
\* source and an event without data.
MessageEvents ==
    {[origin |-> o, source |-> WindowOf(o), data |-> d] :
        o \in Origins, d \in Messages}
    \cup {[origin |-> o, source |-> NoWindow, data |-> d] :
        o \in {"https://evil.example"}, d \in {[action |-> "request", key |-> "handshake"]}}
    \cup {[origin |-> o, source |-> WindowOf(o), data |-> NoData] :
        o \in {"https://remix.ethereum.org"}}

\* What the page declares under the name acquireVsCodeApi.
ApiValues == {"undeclared", "undefined", "function"}

isHandshake(message) == message.key = "handshake" /\ message.action = "request"
checkOrigin(o) == o \in GoodOrigins

InitWebview ==
    /\ constructed = "no"
    /\ isVscode = FALSE
    /\ origin = NoOrigin
    /\ source = NoWindow
    /\ listening = FALSE
    /\ checking = {}
    /\ handled = {}
    /\ dropped = {}
    /\ posted = {}
    /\ received = 0

engineVarsAll ==
    <<plugins, events, hasEvents, listeners, hasListeners, caps, app, profiles,
      actives, callPolicy, activatePolicy, globalName, tasks, activateCount,
      deactivateCount, requests, registrations, delivered, emits, refused>>

\* new WebviewConnector(options), lines 22-25. Reading an identifier the
\* page does not declare throws.
Construct(api) ==
    /\ constructed = "no"
    /\ IF api = "undeclared"
       THEN constructed' = "threw" /\ UNCHANGED <<isVscode, source>>
       ELSE /\ constructed' = "yes"
            /\ isVscode' = (api = "function")
            /\ source' = IF api = "function" THEN VscodeApi ELSE ParentWindow
    /\ UNCHANGED <<origin, listening, checking, handled, dropped, posted,
                   received>>
    /\ UNCHANGED engineVarsAll

\* Lines 30-35: the postMessage call send(message) makes, if any.
SendTarget == IF origin # NoOrigin THEN origin ELSE Wildcard
Posts(message) == isVscode \/ origin # NoOrigin \/ isHandshake(message)
Posting(message) ==
    [message |-> message, window |-> source, vscode |-> isVscode,
     bound |-> origin, target |-> IF isVscode THEN NoOrigin ELSE SendTarget]

send(message) ==
    /\ constructed = "yes"
    /\ posted' = IF Posts(message) THEN posted \cup {Posting(message)} ELSE posted
    /\ UNCHANGED <<constructed, isVscode, origin, source, listening, checking,
                   handled, dropped, received>>
    /\ UNCHANGED engineVarsAll

\* on(cb), line 40: the listener is added.
on ==
    /\ constructed = "yes"
    /\ ~listening
    /\ listening' = TRUE
    /\ UNCHANGED <<constructed, isVscode, origin, source, checking, handled,
                   dropped, posted, received>>
    /\ UNCHANGED engineVarsAll

\* The listener up to its await, lines 41-47, for one 'message' event.
Receive(event) ==
    /\ listening
    /\ received < MaxMessages
    /\ received' = received + 1
    /\ IF event.source = NoWindow \/ event.data = NoData
       THEN UNCHANGED <<checking, handled>>
       ELSE IF isVscode
       THEN handled' = handled \cup {event} /\ UNCHANGED checking
       ELSE checking' = checking \cup {event} /\ UNCHANGED handled
    /\ UNCHANGED <<constructed, isVscode, origin, source, listening, dropped,
                   posted>>
    /\ UNCHANGED engineVarsAll

\* The listener that passes the data on whatever checkOrigin answered.
CheckedUnguarded(event) ==
    /\ event \in checking
    /\ checking' = checking \ {event}
    /\ IF isHandshake(event.data)
       THEN origin' = event.origin /\ source' = event.source
       ELSE UNCHANGED <<origin, source>>
    /\ handled' = handled \cup {event}
    /\ UNCHANGED <<constructed, isVscode, listening, dropped, posted, received>>
    /\ UNCHANGED engineVarsAll

\* The listener after checkOrigin has answered, lines 47-54.
Checked(event) ==
    /\ event \in checking
    /\ checking' = checking \ {event}
    /\ IF ~checkOrigin(event.origin)
       THEN /\ dropped' = dropped \cup {event}
            /\ UNCHANGED <<origin, source, handled>>
       ELSE /\ IF isHandshake(event.data)
               THEN origin' = event.origin /\ source' = event.source
               ELSE UNCHANGED <<origin, source>>
            /\ handled' = handled \cup {event}
            /\ UNCHANGED dropped
    /\ UNCHANGED <<constructed, isVscode, listening, posted, received>>
    /\ UNCHANGED engineVarsAll

\* ------------------------------------------------------------------- Init
BootTask == [Task("boot", Manager, Manager, "-") EXCEPT !.pc = "isActive"]

Init ==
    /\ plugins = [n \in Names |-> IF n = Manager THEN 1 ELSE NoHandle]
    /\ profiles = [n \in Names |->
                     IF n = Manager
                     THEN [name |-> n, methods |-> HandleMethods(n, 1), known |-> TRUE]
                     ELSE NoProfile]
    /\ events = [l \in ListenerNames |-> EmptyTable]
    /\ hasEvents = {}
    /\ listeners = [k \in EventKeys |-> <<>>]
    /\ hasListeners = {}
    /\ caps = [n \in Names |-> NoCaps]
    /\ app = [n \in Names |-> NoApp]
    /\ actives = {}
    /\ \E pol \in Policies : callPolicy = pol.call /\ activatePolicy = pol.activate
    /\ globalName \in GlobalNameValues
    /\ tasks = SetToBag({BootTask})
    /\ activateCount = [n \in Names |-> 0]
    /\ deactivateCount = [n \in Names |-> 0]
    /\ requests = {}
    /\ registrations = {}
    /\ delivered = [x \in Names \X (CbIds \cup {ReCb}) \X (Payloads \cup Names) |-> 0]
    /\ emits = 0
    /\ refused = {}
    /\ InitWebview

\* -------------------------------------------------------------- register
\* Engine.register(plugin), plugin being the handle h named `name`: what
\* the call ends in.
RegisterResult(name) ==
    IF plugins[name] # NoHandle THEN "AlreadyRegistered" ELSE "ok"

RegisterOverwrites(name, h) ==
    /\ plugins' = [plugins EXCEPT ![name] = h]
    /\ profiles' = [profiles EXCEPT ![name] =
           [name |-> name, methods |-> HandleMethods(name, h), known |-> TRUE]]
    /\ registrations' = registrations \cup {<<name, h>>}
    /\ UNCHANGED <<caps, app, actives, tasks, activateCount, deactivateCount,
                   requests, emits>>
    /\ UNCHANGED registryVars
    /\ UNCHANGED <<fixedVars, refused>>

\* Lines 263-270: the name must be free; the handle is stored and the manager
\* is told of the profile.
Register(name, h) ==
    /\ IF RegisterResult(name) # "ok"
       THEN /\ refused' = refused \cup {name}
            /\ UNCHANGED <<plugins, profiles, registrations>>
       ELSE /\ plugins' = [plugins EXCEPT ![name] = h]
            /\ profiles' = [profiles EXCEPT ![name] =
                   [name |-> name, methods |-> HandleMethods(name, h), known |-> TRUE]]
            /\ registrations' = registrations \cup {<<name, h>>}
            /\ UNCHANGED refused
    /\ UNCHANGED <<caps, app, actives, tasks, activateCount, deactivateCount,
                   requests, emits>>
    /\ UNCHANGED registryVars
    /\ UNCHANGED fixedVars

\* ------------------------------------------------------------ callMethod
\* The check of line 132 and the delegation of line 139, on the profile the
\* call holds as `to`.
Exposed(t) == t.method \in t.to.methods

Dispatched(t) == Settle(t, IF Exposed(t) THEN "dispatched" ELSE "MethodNotExposed")

DispatchRequests(t) ==
    IF Exposed(t) THEN requests \cup {<<t.caller, t.target, t.method>>} ELSE requests

\* Lines 109-112: the two profiles of the call, as [to, from].
FetchProfiles(caller, target) ==
    [to |-> GetProfile(caller), from |-> GetProfile(target)]

StartCallUnchecked(caller, target, method) ==
    [Task("call", caller, target, method) EXCEPT
        !.pc = "profiles",
        !.to = FetchProfiles(caller, target).to,
        !.from = FetchProfiles(caller, target).from]

\* callMethod up to its first await (lines 104-112).
StartCall(caller, target, method) ==
    IF plugins[target] = NoHandle
    THEN Settle(Task("call", caller, target, method), "NotRegistered")
    ELSE [Task("call", caller, target, method) EXCEPT
            !.pc = "profiles",
            !.to = FetchProfiles(caller, target).to,
            !.from = FetchProfiles(caller, target).from]

\* The engine's callMethod invoked for `caller`.
CallMethod(caller, target, method) ==
    /\ CanStartCall
    /\ tasks' = Add(StartCall(caller, target, method))
    /\ UNCHANGED <<plugins, caps, app, profiles, actives, activateCount,
                   deactivateCount, requests, registrations, emits>>
    /\ UNCHANGED registryVars
    /\ UNCHANGED <<fixedVars, refused>>

\* A method of the app snapshot of `caller`, line 152: it exists for the
\* methods the target's profile had when createApp ran, and calls callMethod.
AppCall(caller, target, method) ==
    /\ plugins[caller] # NoHandle
    /\ app[caller].exists
    /\ app[caller].of[target].present
    /\ method \in app[caller].of[target].methods
    /\ CanStartCall
    /\ tasks' = Add([StartCall(caller, target, method) EXCEPT !.via = "app"])
    /\ UNCHANGED <<plugins, caps, app, profiles, actives, activateCount,
                   deactivateCount, requests, registrations, emits>>
    /\ UNCHANGED registryVars
    /\ UNCHANGED <<fixedVars, refused>>

\* Lines 109-115: the profiles have arrived; canCall is asked.
CallProfiles(t) ==
    /\ t \in Pending /\ t.kind = "call" /\ t.pc = "profiles"
    /\ tasks' = Replace(t,
          IF ~t.to.known \/ ~t.from.known THEN Settle(t, "ProfileNotFound")
          ELSE [t EXCEPT !.pc = "canCall", !.ans = CanCall(t.from, t.to, t.method)])
    /\ UNCHANGED <<plugins, caps, app, profiles, actives, activateCount,
                   deactivateCount, requests, registrations, emits>>
    /\ UNCHANGED registryVars
    /\ UNCHANGED <<fixedVars, refused>>

\* Lines 115-121: canCall has answered; isActive is asked.
CallCanCall(t) ==
    /\ t \in Pending /\ t.kind = "call" /\ t.pc = "canCall"
    /\ tasks' = Replace(t,
          IF ~t.ans THEN Settle(t, "PermissionDenied")
          ELSE [t EXCEPT !.pc = "isActive", !.ans = IsActive(t.target)])
    /\ UNCHANGED <<plugins, caps, app, profiles, actives, activateCount,
                   deactivateCount, requests, registrations, emits>>
    /\ UNCHANGED registryVars
    /\ UNCHANGED <<fixedVars, refused>>

\* Lines 121-123 and 131-139: isActive has answered; an active target is
\* dispatched to, for an inactive one canActivate is asked.
CallIsActive(t) ==
    LET a == [t EXCEPT !.found = "active"]
        n == [t EXCEPT !.found = "inactive"] IN
    /\ t \in Pending /\ t.kind = "call" /\ t.pc = "isActive"
    /\ IF t.ans
       THEN /\ tasks' = Replace(t, Dispatched(a))
            /\ requests' = DispatchRequests(a)
       ELSE /\ tasks' = Replace(t,
                  [n EXCEPT !.pc = "canActivate", !.ans = CanActivate(t.from, t.to)])
            /\ UNCHANGED requests
    /\ UNCHANGED <<plugins, caps, app, profiles, actives, activateCount,
                   deactivateCount, registrations, emits>>
    /\ UNCHANGED registryVars
    /\ UNCHANGED <<fixedVars, refused>>

\* Lines 123-128: canActivate has answered; toggleActive(target) is called.
CallCanActivate(t) ==
    LET R == ToggleRegistry(t.target) IN
    /\ t \in Pending /\ t.kind = "call" /\ t.pc = "canActivate"
    /\ IF t.ans
       THEN /\ actives' = ToggleActives(t.target)
            /\ SetRegistry(R)
            /\ tasks' = Replace(t, [t EXCEPT !.pc = "toggle", !.err = R.err])
                        (+) Spawned(R.spawn)
       ELSE /\ tasks' = Replace(t, Settle(t, "NotActivatable"))
            /\ UNCHANGED actives
            /\ UNCHANGED registryVars
    /\ UNCHANGED <<plugins, caps, app, profiles, activateCount,
                   deactivateCount, requests, registrations, emits>>
    /\ UNCHANGED <<fixedVars, refused>>

\* callMethod checking the target again after toggleActive has settled,
\* instead of going on to line 131.
CallToggledAgain(t) ==
    /\ t \in Pending /\ t.kind = "call" /\ t.pc = "toggle"
    /\ tasks' = Replace(t, [t EXCEPT !.pc = "canActivate"])
    /\ UNCHANGED <<plugins, caps, app, profiles, actives, activateCount,
                   deactivateCount, requests, registrations, emits>>
    /\ UNCHANGED registryVars
    /\ UNCHANGED <<fixedVars, refused>>

\* Lines 125 and 131-139: toggleActive has settled.
CallToggled(t) ==
    /\ t \in Pending /\ t.kind = "call" /\ t.pc = "toggle"
    /\ IF t.err # "none"
       THEN /\ tasks' = Replace(t, Settle(t, t.err))
            /\ UNCHANGED requests
       ELSE /\ tasks' = Replace(t, Dispatched(t))
            /\ requests' = DispatchRequests(t)
    /\ UNCHANGED <<plugins, caps, app, profiles, actives, activateCount,
                   deactivateCount, registrations, emits>>
    /\ UNCHANGED registryVars
    /\ UNCHANGED <<fixedVars, refused>>

\* -------------------------------------------------------- activatePlugin
IsLifecycle(t, kinds, pc) == t \in Pending /\ t.kind \in kinds /\ t.pc = pc

\* createApp's view of the registry: the profile of every registered name.
Snapshot == [n \in Names |->
               IF plugins[n] # NoHandle /\ GetProfile(n).known
               THEN [present |-> TRUE, methods |-> GetProfile(n).methods]
               ELSE [present |-> FALSE, methods |-> {}]]

\* The engine's activatePlugin(name).
ActivatePlugin(name) ==
    /\ CanStartLifecycle(name)
    /\ tasks' = Add(StartLifecycle("activate", name))
    /\ UNCHANGED <<plugins, caps, app, profiles, actives, activateCount,
                   deactivateCount, requests, registrations, emits>>
    /\ UNCHANGED registryVars
    /\ UNCHANGED <<fixedVars, refused>>

\* How activateManager goes on when its activatePlugin('manager') settles.
AfterActivation(t, result) ==
    IF t.kind = "boot" /\ result \in {"ok", "noop"}
    THEN [Settle(t, "pending") EXCEPT !.pc = "listen"]
    ELSE Settle(t, result)

\* Lines 173-195: isActive has answered; the event table is allocated, the
\* capabilities are installed and createApp is called.
ActIsActive(t) ==
    /\ IsLifecycle(t, {"activate", "boot"}, "isActive")
    /\ IF t.ans
       THEN /\ tasks' = Replace(t, AfterActivation(t, "noop"))
            /\ UNCHANGED <<events, hasEvents, caps>>
       ELSE /\ events' = [events EXCEPT ![t.target] = EmptyTable]
            /\ hasEvents' = hasEvents \cup {t.target}
            /\ caps' = [caps EXCEPT ![t.target] = LiveCaps]
            /\ tasks' = Replace(t,
                  [t EXCEPT !.pc = "createApp", !.snap = Snapshot])
    /\ UNCHANGED <<plugins, app, profiles, actives, activateCount,
                   deactivateCount, requests, registrations, emits>>
    /\ UNCHANGED <<listeners, hasListeners, delivered>>
    /\ UNCHANGED <<fixedVars, refused>>

\* Lines 195-199: the snapshot is attached and the activate hook is called.
ActApp(t) ==
    /\ IsLifecycle(t, {"activate", "boot"}, "createApp")
    /\ app' = [app EXCEPT ![t.target] = [exists |-> TRUE, of |-> t.snap]]
    /\ caps' = [caps EXCEPT ![t.target].createApp = "live"]
    /\ activateCount' = [activateCount EXCEPT ![t.target] = @ + 1]
    /\ tasks' = Replace(t, [t EXCEPT !.pc = "hook", !.snap = NoSnapshot])
    /\ UNCHANGED <<plugins, profiles, actives, deactivateCount, requests,
                   registrations, emits>>
    /\ UNCHANGED registryVars
    /\ UNCHANGED <<fixedVars, refused>>

\* Lines 199-200: the activate hook has settled, with or without an error.
ActHook(t, ok) ==
    /\ IsLifecycle(t, {"activate", "boot"}, "hook")
    /\ tasks' = Replace(t,
                   AfterActivation(t, IF ok THEN "ok" ELSE "HookFailed"))
    /\ UNCHANGED <<plugins, caps, app, profiles, actives, activateCount,
                   deactivateCount, requests, registrations, emits>>
    /\ UNCHANGED registryVars
    /\ UNCHANGED <<fixedVars, refused>>

\* Lines 24-25 of activateManager: the two subscriptions of the root.
BootRegistry ==
    LET R1 == AddListener(Registry, Root, Manager, "activated",
                          [id |-> "activatePlugin", once |-> FALSE, owner |-> Root])
    IN IF R1.err # "none" THEN R1
       ELSE AddListener(R1, Root, Manager, "deactivated",
                        [id |-> "deactivatePlugin", once |-> FALSE, owner |-> Root])

BootListen(t) ==
    LET R == BootRegistry IN
    /\ IsLifecycle(t, {"boot"}, "listen")
    /\ SetRegistry(R)
    /\ tasks' = Replace(t,
                   Settle(t, IF R.err = "none" THEN "ok" ELSE R.err))
    /\ UNCHANGED <<plugins, caps, app, profiles, actives, activateCount,
                   deactivateCount, requests, registrations, emits>>
    /\ UNCHANGED <<fixedVars, refused>>

\* ------------------------------------------------------ deactivatePlugin
DeadCaps == [call |-> "dead", on |-> "dead", once |-> "dead", off |-> "dead",
             emit |-> "dead", createApp |-> "none"]

PurgeNone(ls, name) == ls

PurgeAll(ls, name) == [k \in EventKeys |-> <<>>]

\* Lines 249-253: `name` is spliced out of every listener list.
Purge(ls, name) == [k \in EventKeys |-> SpliceEach(ls[k], 1, name)]

\* The engine's deactivatePlugin(name).
DeactivatePlugin(name) ==
    /\ CanStartLifecycle(name)
    /\ tasks' = Add(StartLifecycle("deactivate", name))
    /\ UNCHANGED <<plugins, caps, app, profiles, actives, activateCount,
                   deactivateCount, requests, registrations, emits>>
    /\ UNCHANGED registryVars
    /\ UNCHANGED <<fixedVars, refused>>

\* Lines 212-217: isActive has answered; the deactivate hook is called.
DeactIsActive(t) ==
    /\ IsLifecycle(t, {"deactivate"}, "isActive")
    /\ IF ~t.ans
       THEN /\ tasks' = Replace(t, Settle(t, "noop"))
            /\ UNCHANGED deactivateCount
       ELSE /\ tasks' = Replace(t, [t EXCEPT !.pc = "hook"])
            /\ deactivateCount' = [deactivateCount EXCEPT ![t.target] = @ + 1]
    /\ UNCHANGED <<plugins, caps, app, profiles, actives, activateCount,
                   requests, registrations, emits>>
    /\ UNCHANGED registryVars
    /\ UNCHANGED <<fixedVars, refused>>

\* Lines 217-256: the deactivate hook has settled; on success the
\* capabilities are replaced, the snapshot and the event table deleted and
\* the listener lists purged.
DeactHook(t, ok) ==
    /\ IsLifecycle(t, {"deactivate"}, "hook")
    /\ IF ok
       THEN /\ caps' = [caps EXCEPT ![t.target] = DeadCaps]
            /\ app' = [app EXCEPT ![t.target] = NoApp]
            /\ events' = [events EXCEPT ![t.target] = EmptyTable]
            /\ hasEvents' = hasEvents \ {t.target}
            /\ listeners' = Purge(listeners, t.target)
            /\ tasks' = Replace(t, Settle(t, "ok"))
       ELSE /\ tasks' = Replace(t, Settle(t, "HookFailed"))
            /\ UNCHANGED <<caps, app, events, hasEvents, listeners>>
    /\ UNCHANGED <<plugins, profiles, actives, activateCount, deactivateCount,
                   requests, registrations, emits>>
    /\ UNCHANGED <<hasListeners, delivered>>
    /\ UNCHANGED <<fixedVars, refused>>

\* ------------------------------------------- the injected capabilities
\* What a capability in state c does: "live" runs the engine's method, "dead"
\* is the stand-in of deactivatePlugin, "none" was never installed. How a
\* call of it ends when it ends in registry value R.
CapResult(c, R) ==
    IF c = "live" THEN (IF R.err = "none" THEN "ok" ELSE R.err)
    ELSE IF c = "dead" THEN "Deactivated" ELSE "TypeError"

\* A synchronous capability in state c of plugin p, ending in R if live.
RegistryCall(p, c, R) ==
    /\ plugins[p] # NoHandle
    /\ IF c = "live"
       THEN /\ SetRegistry(R)
            /\ tasks' = tasks (+) Spawned(R.spawn)
       ELSE /\ UNCHANGED registryVars
            /\ UNCHANGED tasks
    /\ UNCHANGED <<plugins, caps, app, profiles, actives, activateCount,
                   deactivateCount, requests, registrations>>
    /\ UNCHANGED <<fixedVars, refused>>

\* plugin.on(emitter, event, cb), lines 178-180 and 226-228.
OnRegistry(p, key, cb) ==
    AddListener(Registry, p, key[1], key[2], [id |-> cb, once |-> FALSE, owner |-> p])
OnResult(p, key, cb) == CapResult(caps[p].on, OnRegistry(p, key, cb))
On(p, key, cb) ==
    /\ RegistryCall(p, caps[p].on, OnRegistry(p, key, cb))
    /\ UNCHANGED emits

\* plugin.once(emitter, event, cb), lines 181-183 and 229-231.
OnceRegistry(p, key, cb) == ListenOnce(Registry, p, key[1], key[2], cb)
OnceResult(p, key, cb) == CapResult(caps[p].once, OnceRegistry(p, key, cb))
Once(p, key, cb) ==
    /\ RegistryCall(p, caps[p].once, OnceRegistry(p, key, cb))
    /\ UNCHANGED emits

\* plugin.off(emitter, event), lines 184-186 and 232-234.
OffRegistry(p, key) == RemoveListener(Registry, p, key[1], key[2])
OffResult(p, key) == CapResult(caps[p].off, OffRegistry(p, key))
Off(p, key) ==
    /\ RegistryCall(p, caps[p].off, OffRegistry(p, key))
    /\ UNCHANGED emits

\* plugin.emit(event, payload), lines 187-189 and 235-237.
EmitRegistry(p, event, payload) == Broadcast(Registry, p, event, payload)
EmitResult(p, event, payload) == CapResult(caps[p].emit, EmitRegistry(p, event, payload))
Emit(p, event, payload) ==
    /\ emits < MaxEmits
    /\ emits' = emits + 1
    /\ RegistryCall(p, caps[p].emit, EmitRegistry(p, event, payload))

\* plugin.call(target, method), lines 190-192 and 223-225: the call itself
\* returns the promise of callMethod or throws.
CallResult(p) == CapResult(caps[p].call, Registry)
Call(p, target, method) ==
    /\ plugins[p] # NoHandle
    /\ IF caps[p].call = "live"
       THEN /\ CanStartCall
            /\ tasks' = Add(StartCall(p, target, method))
       ELSE UNCHANGED tasks
    /\ UNCHANGED <<plugins, caps, app, profiles, actives, activateCount,
                   deactivateCount, requests, registrations, emits>>
    /\ UNCHANGED registryVars
    /\ UNCHANGED <<fixedVars, refused>>

\* manager.toggleActive(name) called from outside the engine. The event is
\* emitted on the flag as it was and the flag is flipped in the same step.
ToggleActive(name) ==
    LET R == ToggleRegistry(name) IN
    /\ profiles[name].known
    /\ actives' = ToggleActives(name)
    /\ SetRegistry(R)
    /\ tasks' = tasks (+) Spawned(R.spawn)
    /\ UNCHANGED <<plugins, caps, app, profiles, activateCount,
                   deactivateCount, requests, registrations, emits>>
    /\ UNCHANGED <<fixedVars, refused>>

\* ------------------------------------------------------------------- Next
Next ==
    \/ \E n \in Plugins, h \in Handles : Register(n, h)
    \/ \E c \in Plugins, t \in Plugins, m \in Methods : CallMethod(c, t, m)
    \/ \E t \in Pending : CallProfiles(t)
    \/ \E t \in Pending : CallCanCall(t)
    \/ \E t \in Pending : CallIsActive(t)
    \/ \E t \in Pending : CallCanActivate(t)
    \/ \E t \in Pending : CallToggled(t)
    \/ \E n \in Plugins : ActivatePlugin(n)
    \/ \E t \in Pending : ActIsActive(t)
    \/ \E t \in Pending : ActApp(t)
    \/ \E t \in Pending, ok \in BOOLEAN : ActHook(t, ok)
    \/ \E t \in Pending : BootListen(t)
    \/ \E n \in Plugins : DeactivatePlugin(n)
    \/ \E t \in Pending : DeactIsActive(t)
    \/ \E t \in Pending, ok \in BOOLEAN : DeactHook(t, ok)
    \/ \E p \in Plugins, k \in SubKeys, cb \in CbIds : On(p, k, cb)
    \/ \E p \in Plugins, k \in SubKeys, cb \in CbIds : Once(p, k, cb)
    \/ \E p \in Plugins, k \in SubKeys : Off(p, k)
    \/ \E p \in {"B"}, e \in PluginEvents, x \in Payloads : Emit(p, e, x)
    \/ \E p \in Plugins, t \in Plugins, m \in Methods : Call(p, t, m)
    \/ \E n \in Plugins : ToggleActive(n)

Spec == Init /\ [][Next]_vars

\* Registration and dispatch alone: the outside registers plugins, toggles
\* their flag at the manager and calls methods. No action here reads the
\* free identifier `name`, so one value of it is enough.
InitDispatch == Init /\ globalName = Blank

NextDispatch ==
    \/ \E n \in Plugins, h \in Handles : Register(n, h)
    \/ \E c \in Plugins, t \in Plugins, m \in Methods : CallMethod(c, t, m)
    \/ \E t \in Pending : CallProfiles(t)
    \/ \E t \in Pending : CallCanCall(t)
    \/ \E t \in Pending : CallIsActive(t)
    \/ \E t \in Pending : CallCanActivate(t)
    \/ \E t \in Pending : CallToggled(t)
    \/ \E n \in Plugins : ToggleActive(n)

SpecDispatch == InitDispatch /\ [][NextDispatch]_vars

\* The manager permits everything and the global `name` is blank.
InitPermissive ==
    Init /\ globalName = Blank /\ callPolicy = AllPairs /\ activatePolicy = AllPairs

\* The registry and the calls alone, under the permissive manager: plugins
\* are registered, again and with other handles, and call each other; only
\* the calls toggle the manager's flags.
NextRegistry ==
    \/ \E n \in Plugins, h \in Handles : Register(n, h)
    \/ \E c \in Plugins, t \in Plugins, m \in Methods : CallMethod(c, t, m)
    \/ \E t \in Pending : CallProfiles(t)
    \/ \E t \in Pending : CallCanCall(t)
    \/ \E t \in Pending : CallIsActive(t)
    \/ \E t \in Pending : CallCanActivate(t)
    \/ \E t \in Pending : CallToggled(t)

SpecRegistry == InitPermissive /\ [][NextRegistry]_vars

\* The lifecycle of one plugin, "A": the outside registers plugins, toggles
\* A's flag at the manager and calls the engine's activatePlugin and
\* deactivatePlugin, any number of them in flight at once.
NextLifecycle ==
    \/ \E n \in Plugins : plugins[n] = NoHandle /\ Register(n, 1)
    \/ ActivatePlugin("A")
    \/ \E t \in Pending : ActIsActive(t)
    \/ \E t \in Pending : ActApp(t)
    \/ \E t \in Pending, ok \in BOOLEAN : ActHook(t, ok)
    \/ DeactivatePlugin("A")
    \/ \E t \in Pending : DeactIsActive(t)
    \/ \E t \in Pending, ok \in BOOLEAN : DeactHook(t, ok)
    \/ ToggleActive("A")

SpecLifecycle == InitPermissive /\ [][NextLifecycle]_vars

\* The bootstrap: activateManager runs while the outside registers plugins
\* and the manager toggles them.
NextBoot ==
    \/ \E n \in Plugins, h \in Handles : plugins[n] = NoHandle /\ Register(n, h)
    \/ \E t \in Pending : ActIsActive(t)
    \/ \E t \in Pending : ActApp(t)
    \/ \E t \in Pending, ok \in BOOLEAN : ActHook(t, ok)
    \/ \E t \in Pending : BootListen(t)
    \/ \E n \in Plugins : ToggleActive(n)

SpecBoot == Init /\ [][NextBoot]_vars

\* Events: plugins are registered and activated, subscribe to the event
\* "ev" of "B" and emit.
NeverActivated(n) == \A t \in Pending : t.kind = "activate" => t.target # n
InitEvents == Init /\ callPolicy = AllPairs /\ activatePolicy = AllPairs

NextEvents ==
    \/ \E n \in Plugins : plugins[n] = NoHandle /\ Register(n, 1)
    \/ \E n \in Plugins : NeverActivated(n) /\ ActivatePlugin(n)
    \/ \E t \in Pending : ActIsActive(t)
    \/ \E t \in Pending : ActApp(t)
    \/ \E t \in Pending : ActHook(t, TRUE)
    \/ \E p \in Plugins, cb \in CbIds : On(p, <<"B", "ev">>, cb)
    \/ \E p \in Plugins, x \in Payloads : Emit(p, "ev", x)

SpecEvents == InitEvents /\ [][NextEvents]_vars

\* Subscriptions across a deactivation. Both plugins are registered before
\* either is activated, the global `name` is "A", and "A" subscribes to the
\* event "ev" that "B" emits. One plugin is activated once, first; the
\* other is then activated, flagged, deactivated and activated again, one
\* operation at a time.
Idle(n) ==
    \A t \in Pending :
        (t.kind \in {"activate", "deactivate"} /\ t.target = n) => t.pc = "done"
BothRegistered == \A n \in Plugins : plugins[n] # NoHandle

InitNamedA == InitEvents /\ globalName = "A"

\* The listener "A" is the one deactivated and activated again.
NextResubscribe ==
    \/ \E n \in Plugins : plugins[n] = NoHandle /\ Register(n, 1)
    \/ BothRegistered /\ NeverActivated("A") /\ NeverActivated("B") /\ ActivatePlugin("B")
    \/ ~NeverActivated("B") /\ Idle("A") /\ Idle("B") /\ ActivatePlugin("A")
    \/ Idle("A") /\ Idle("B") /\ DeactivatePlugin("A")
    \/ Idle("A") /\ ToggleActive("A")
    \/ \E t \in Pending : ActIsActive(t)
    \/ \E t \in Pending : ActApp(t)
    \/ \E t \in Pending : ActHook(t, TRUE)
    \/ \E t \in Pending : DeactIsActive(t)
    \/ \E t \in Pending : DeactHook(t, TRUE)
    \/ On("A", <<"B", "ev">>, "cb1")
    \/ Emit("B", "ev", "p1")

SpecResubscribe == InitNamedA /\ [][NextResubscribe]_vars

\* The emitter "B" is the one deactivated and activated again.
NextReemit ==
    \/ \E n \in Plugins : plugins[n] = NoHandle /\ Register(n, 1)
    \/ BothRegistered /\ NeverActivated("B") /\ NeverActivated("A") /\ ActivatePlugin("A")
    \/ ~NeverActivated("A") /\ Idle("A") /\ Idle("B") /\ ActivatePlugin("B")
    \/ Idle("A") /\ Idle("B") /\ DeactivatePlugin("B")
    \/ Idle("B") /\ ToggleActive("B")
    \/ \E t \in Pending : ActIsActive(t)
    \/ \E t \in Pending : ActApp(t)
    \/ \E t \in Pending : ActHook(t, TRUE)
    \/ \E t \in Pending : DeactIsActive(t)
    \/ \E t \in Pending : DeactHook(t, TRUE)
    \/ On("A", <<"B", "ev">>, "cb1")
    \/ Emit("B", "ev", "p1")

SpecReemit == InitNamedA /\ [][NextReemit]_vars

\* Calls through the app snapshot: "A" and "B" are registered, "A" is
\* activated, the manager changes the methods of B's profile, and "A" calls
\* the methods of "B" its snapshot holds.
NextApp ==
    \/ \E n \in Plugins, h \in Handles : plugins[n] = NoHandle /\ Register(n, h)
    \/ BothRegistered /\ NeverActivated("A") /\ ActivatePlugin("A")
    \/ \E t \in Pending : ActIsActive(t)
    \/ \E t \in Pending : ActApp(t)
    \/ \E t \in Pending : ActHook(t, TRUE)
    \/ \E h \in Handles : UpdateProfile("B", h)
    \/ \E m \in Methods : AppCall("A", "B", m)
    \/ \E t \in Pending : CallProfiles(t)
    \/ \E t \in Pending : CallCanCall(t)
    \/ \E t \in Pending : CallIsActive(t)
    \/ \E t \in Pending : CallCanActivate(t)
    \/ \E t \in Pending : CallToggled(t)

SpecApp == InitPermissive /\ [][NextApp]_vars

\* One-shot subscriptions: plugins are registered and activated, subscribe
\* once to the event "ev" of "B", with a plain callback or with the one that
\* emits again, unsubscribe and emit.
NextSubscribe ==
    \/ \E n \in Plugins : plugins[n] = NoHandle /\ Register(n, 1)
    \/ \E n \in Plugins : NeverActivated(n) /\ ActivatePlugin(n)
    \/ \E t \in Pending : ActIsActive(t)
    \/ \E t \in Pending : ActApp(t)
    \/ \E t \in Pending : ActHook(t, TRUE)
    \/ \E p \in Plugins, cb \in {"cb1", ReCb} : Once(p, <<"B", "ev">>, cb)
    \/ \E p \in Plugins : Off(p, <<"B", "ev">>)
    \/ \E p \in Plugins : Emit(p, "ev", "p1")

SpecSubscribe == InitEvents /\ [][NextSubscribe]_vars

\* Activate hooks that depend on each other: the hook of "A" calls a method
\* of "B" through the `call` capability activatePlugin installed (lines
\* 190-192) and waits for it, and the hook of "B" calls a method of "A".
Other(p) == IF p = "A" THEN "B" ELSE "A"

HookCall(p, m) == [StartCall(p, Other(p), m) EXCEPT !.via = "hook"]

\* The hook of t.target has been invoked (line 199) and calls the other
\* plugin's method m.
HookCalls(t, m) ==
    /\ IsLifecycle(t, {"activate"}, "hook")
    /\ caps[t.target].call = "live"
    /\ tasks' = Replace(t, [t EXCEPT !.pc = "hookWait"])
                (+) SetToBag({HookCall(t.target, m)})
    /\ UNCHANGED <<plugins, caps, app, profiles, actives, activateCount,
                   deactivateCount, requests, registrations, emits>>
    /\ UNCHANGED registryVars
    /\ UNCHANGED <<fixedVars, refused>>

\* The call of the hook has settled and so does the hook: activatePlugin
\* goes on after line 199, or fails with the hook's error.
HookReturns(t) ==
    /\ IsLifecycle(t, {"activate"}, "hookWait")
    /\ \E u \in Pending :
          /\ u.kind = "call" /\ u.via = "hook" /\ u.caller = t.target
          /\ u.pc = "done"
          /\ tasks' = Replace(t,
                Settle(t, IF u.result = "dispatched" THEN "ok" ELSE "HookFailed"))
    /\ UNCHANGED <<plugins, caps, app, profiles, actives, activateCount,
                   deactivateCount, requests, registrations, emits>>
    /\ UNCHANGED registryVars
    /\ UNCHANGED <<fixedVars, refused>>

BootDone == \A t \in Pending : t.kind = "boot" => t.pc = "done"

\* What the outside does: once activateManager has settled it registers the
\* two plugins, has each of them activated once, and has "B" call "A".
EnvCascade ==
    \/ \E n \in Plugins : BootDone /\ plugins[n] = NoHandle /\ Register(n, 1)
    \/ \E n \in Plugins : BothRegistered /\ NeverActivated(n) /\ ActivatePlugin(n)
    \/ \E m \in Methods : BothRegistered /\ CallMethod("B", "A", m)

\* The continuations the event loop runs.
StepCascade ==
    \/ \E t \in Pending : ActIsActive(t)
    \/ \E t \in Pending : ActApp(t)
    \/ \E t \in Pending : t.kind = "boot" /\ ActHook(t, TRUE)
    \/ \E t \in Pending : BootListen(t)
    \/ \E t \in Pending, m \in Methods : HookCalls(t, m)
    \/ \E t \in Pending : HookReturns(t)
    \/ \E t \in Pending : CallProfiles(t)
    \/ \E t \in Pending : CallCanCall(t)
    \/ \E t \in Pending : CallIsActive(t)
    \/ \E t \in Pending : CallCanActivate(t)
    \/ \E t \in Pending : CallToggled(t)

NextCascade == EnvCascade \/ StepCascade

SpecCascade == InitPermissive /\ [][NextCascade]_vars

\* Every promise of the manager settles and the event loop runs every
\* continuation that is ready.
FairCascade == SpecCascade /\ WF_vars(StepCascade)

\* The connector alone: it is constructed, on(cb) is called, the window
\* receives messages from any origin and the client sends.
NextWebview ==
    \/ \E api \in ApiValues : Construct(api)
    \/ on
    \/ \E event \in MessageEvents : Receive(event)
    \/ \E event \in MessageEvents : Checked(event)
    \/ \E message \in Messages : send(message)

SpecWebview == InitPermissive /\ [][NextWebview]_vars

\* ------------------------------------------------------- dispatch claims
CallTasks == {t \in Pending : t.kind = "call"}
SettledCalls == {t \in CallTasks : t.pc = "done"}
\* The calls that got as far as the permission query.
QueriedCalls ==
    {t \in SettledCalls : t.result \notin {"NotRegistered", "ProfileNotFound"}}
CallerProfile(t) == GetProfile(t.caller)
TargetProfile(t) == GetProfile(t.target)
\* Task u is in the bag after the step and was not (or less often) before.
Appears(u) == CopiesIn(u, tasks') > CopiesIn(u, tasks)
Leaves(t) == CopiesIn(t, tasks') < CopiesIn(t, tasks)

\* C1: a call whose caller may not call the target's method (canCall asked
\* with the caller's profile as from and the target's as to) fails with
\* PermissionDenied; in particular it is never handed to addRequest.
C1_DeniedCallFails ==
    \A t \in QueriedCalls :
        ~CanCall(CallerProfile(t), TargetProfile(t), t.method)
            => t.result = "PermissionDenied"

\* C2: a call that gets as far as the exposure check is handed to the
\* target's addRequest if the method is in the methods of the target's
\* profile and fails with MethodNotExposed if it is not.
C2_DispatchOnlyIfTargetExposes ==
    \A t \in SettledCalls :
        t.result \in {"dispatched", "MethodNotExposed"} =>
            (t.result = "dispatched" <=> t.method \in TargetProfile(t).methods)

\* C3: when a call that found its target inactive and was allowed to
\* activate it is handed to addRequest, the target's capabilities are
\* installed and its activate hook has run exactly once and has settled.
ActivationSettled(name) ==
    \E a \in Pending :
        /\ a.kind = "activate" /\ a.target = name
        /\ a.pc = "done" /\ a.result = "ok"

C3_ActivatedBeforeDispatch ==
    [][\A t \in CallTasks :
         ( /\ t.found = "inactive"
           /\ t.pc # "done"
           /\ Leaves(t)
           /\ Appears(Settle(t, "dispatched"))
           /\ CanCall(CallerProfile(t), TargetProfile(t), t.method)
           /\ CanActivate(CallerProfile(t), TargetProfile(t)) )
         => ( /\ caps[t.target].call = "live"
              /\ activateCount[t.target] = 1
              /\ ActivationSettled(t.target) )]_vars

\* C7: register of a name that is in the registry throws AlreadyRegistered
\* and changes nothing else: the name keeps its first handle, the manager
\* gets no profile and onRegistration is not fired. No step changes the
\* handle of a registered name, and the step that registers a name
\* activates nothing.
C7_DuplicateRegisterRejected ==
    [][\A n \in Names :
         /\ \A h \in Handles :
              (Register(n, h) /\ plugins[n] # NoHandle) =>
                 /\ n \in refused'
                 /\ UNCHANGED <<plugins, profiles, registrations, actives,
                                caps, app, tasks, activateCount, requests>>
         /\ plugins[n] # NoHandle =>
              /\ plugins'[n] = plugins[n]
              /\ profiles'[n] = profiles[n]
              /\ {r \in registrations' : r[1] = n} = {r \in registrations : r[1] = n}
         /\ (plugins[n] = NoHandle /\ plugins'[n] # NoHandle) =>
              /\ refused' = refused
              /\ registrations' = registrations \cup {<<n, plugins'[n]>>}
              /\ UNCHANGED <<actives, caps, app, tasks, activateCount>>]_vars

\* "A" was registered with its second handle, a further register of "A"
\* was refused, and "A" is inactive and was never activated.
C7_Witness ==
    /\ "A" \in refused
    /\ plugins["A"] = 2
    /\ registrations = {<<"A", 2>>}
    /\ "A" \notin actives /\ activateCount["A"] = 0

\* C8: a callMethod whose target is not registered settles at once with
\* NotRegistered: it never waits for a profile, asks no permission, toggles
\* no flag and hands nothing to addRequest.
C8_UnregisteredTargetFails ==
    [][\A u \in BagToSet(tasks') :
         ( /\ BagCardinality(tasks') > BagCardinality(tasks)
           /\ Appears(u)
           /\ u.kind = "call"
           /\ plugins[u.target] = NoHandle )
         => ( /\ u.pc = "done" /\ u.result = "NotRegistered"
              /\ u.to = NoProfile /\ u.from = NoProfile
              /\ requests' = requests
              /\ actives' = actives
              /\ activateCount' = activateCount )]_vars

\* The call of a registered caller to a target that is still unregistered
\* has failed.
C8_Witness ==
    \E t \in SettledCalls :
        /\ t.result = "NotRegistered"
        /\ plugins[t.caller] # NoHandle
        /\ plugins[t.target] = NoHandle
        /\ requests = {}

\* C9: a call that found its target inactive while the caller may not
\* activate the target (canActivate asked with the caller's profile as from)
\* fails with NotActivatable.
C9_RefusedActivationFails ==
    \A t \in QueriedCalls :
        (t.found = "inactive" /\ ~CanActivate(CallerProfile(t), TargetProfile(t)))
            => t.result = "NotActivatable"

\* ------------------------------------------------------ lifecycle claims
ActivationTasks(name) ==
    {t \in Pending : t.kind = "activate" /\ t.target = name}
DeactivationTasks(name) ==
    {t \in Pending : t.kind = "deactivate" /\ t.target = name}
\* The step settles task t with `result`.
Settles(t, result) == t.pc # "done" /\ Leaves(t) /\ Appears(Settle(t, result))

\* C4: the activate hook of a plugin is not invoked while an earlier
\* invocation of it, made by another activation in flight, has not settled;
\* and an activation that completes leaves the plugin flagged active.
C4_ConcurrentActivationsCollapse ==
    [][\A n \in Plugins :
         /\ activateCount'[n] > activateCount[n] =>
               ~\E a \in ActivationTasks(n) : a.pc = "hook"
         /\ \A a \in ActivationTasks(n) : Settles(a, "ok") => n \in actives']_vars

\* C5: once activateManager has settled, each 'activated' event of the
\* manager for a registered plugin starts the engine's activatePlugin for
\* it, and each 'deactivated' event its deactivatePlugin.
\* activateManager has settled, the manager's activate hook having succeeded.
BootSettled ==
    \A t \in Pending :
        t.kind = "boot" => (t.pc = "done" /\ t.result # "HookFailed")

C5_ManagerEventsWireEngine ==
    [][\A n \in Plugins :
         (BootSettled /\ plugins[n] # NoHandle) =>
            /\ (n \notin actives /\ n \in actives') =>
                  \E u \in BagToSet(tasks') :
                      Appears(u) /\ u.kind = "activate" /\ u.target = n
            /\ (n \in actives /\ n \notin actives') =>
                  \E u \in BagToSet(tasks') :
                      Appears(u) /\ u.kind = "deactivate" /\ u.target = n]_vars

\* What every call of a capability of p ends in / whether the five run the
\* engine's methods.
AllDeactivated(p) ==
    /\ CallResult(p) = "Deactivated"
    /\ \A k \in SubKeys, cb \in CbIds :
          OnResult(p, k, cb) = "Deactivated" /\ OnceResult(p, k, cb) = "Deactivated"
    /\ \A k \in SubKeys : OffResult(p, k) = "Deactivated"
    /\ \A e \in PluginEvents, x \in Payloads : EmitResult(p, e, x) = "Deactivated"
AllLive(p) ==
    \A c \in {"call", "on", "once", "off", "emit"} : caps[p][c] = "live"
\* The snapshot holds exactly the registered plugins, with their methods.
ReflectsRegistry(snap) ==
    \A n \in Names :
        /\ snap[n].present <=> plugins[n] # NoHandle
        /\ snap[n].present => snap[n].methods = profiles[n].methods

\* C6: when deactivatePlugin(p) completes, and as long as the
\* capabilities are the stand-ins, the five fail with Deactivated and p has
\* no app; when an activatePlugin(p) completes after a deactivation, the
\* five are live and p.app is a snapshot of the plugins registered then.
C6_DeactivatedUntilReactivated ==
    [][\A p \in Plugins :
         /\ \A d \in DeactivationTasks(p) :
               Settles(d, "ok") => (AllDeactivated(p)' /\ ~app'[p].exists)
         /\ AllDeactivated(p)' => ~app'[p].exists
         /\ \A a \in ActivationTasks(p) :
               ( /\ Settles(a, "ok") \/ Settles(a, "noop")
                 /\ deactivateCount[p] > 0
                 /\ \A d \in DeactivationTasks(p) : d.pc = "done" )
               => ( /\ AllLive(p)'
                    /\ app'[p].exists
                    /\ ReflectsRegistry(app[p].of)' )]_vars

\* ------------------------------------------------------------ event claims
\* The listeners that subscribed to `key` and are still active, by the
\* callback addListener stored for them.
Subscribed(key) ==
    {l \in hasEvents : key \in EventKeys /\ events[l][key] # NoCb}

\* C10: an emission of (p, "ev") with payload x through the live emit of p
\* invokes the callback of every active subscriber exactly once with x and
\* no other callback; with no subscriber it changes nothing.
C10_BroadcastInvokesEachSubscriberOnce ==
    [][\A p \in Plugins, x \in Payloads :
         (Emit(p, "ev", x) /\ caps[p].emit = "live") =>
            LET key == listenEvent(p, "ev") IN
            /\ EmitResult(p, "ev", x) = "ok"
            /\ \A d \in DOMAIN delivered :
                  delivered'[d] =
                     IF d[1] \in Subscribed(key) /\ d[3] = x
                        /\ events[d[1]][key].id = d[2]
                     THEN delivered[d] + 1 ELSE delivered[d]
            /\ Subscribed(key) = {} => UNCHANGED registryVars]_vars

\* How often the step invoked the callback stored for listener l under key.
Deliveries(l, key) ==
    LET id == events[l][key].id IN
    IF id \notin CbIds \cup {ReCb} THEN 0
    ELSE IF \E x \in Payloads : delivered'[<<l, id, x>>] = delivered[<<l, id, x>>] + 2
    THEN 2
    ELSE Cardinality({x \in Payloads : delivered'[<<l, id, x>>] # delivered[<<l, id, x>>]})

\* C11: no step, whatever broadcasts nest in it, invokes a callback stored
\* by listenOnce more than once, and after the step that invoked it its
\* listener is not in the list of the event and holds no callback for it.
C11_OnceDeliveredAtMostOnce ==
    [][\A l \in Plugins, key \in SubKeys :
         (l \in hasEvents /\ events[l][key].once) =>
            /\ Deliveries(l, key) <= 1
            /\ Deliveries(l, key) = 1 =>
                  /\ ~Includes(listeners'[key], l)
                  /\ l \in hasEvents' => events'[l][key] = NoCb]_vars

\* C13: a name is in the listener list of an event exactly if the table of
\* that name holds a callback for the event, and no emit aborts with the
\* 'no callback have been found' error.
C13_ListenersMatchCallbacks ==
    /\ \A key \in EventKeys, l \in ListenerNames :
          Includes(listeners[key], l) <=> (l \in hasEvents /\ events[l][key] # NoCb)
    /\ \A p \in Plugins, x \in Payloads :
          EmitResult(p, "ev", x) # "InternalConsistency"

\* How often name l occurs in a list.
Occurrences(list, l) == Cardinality({i \in 1..Len(list) : list[i] = l})

\* C16: for a listener that holds a callback for (E, ev), on(E, ev, cb2)
\* returns and changes nothing, the listener is in the list of the event
\* exactly once, and an emit of the event invokes the stored callback once
\* and no other callback of the listener.
C16_SecondSubscriptionIgnored ==
    \A l \in Plugins, key \in SubKeys :
        (l \in hasEvents /\ events[l][key] # NoCb /\ caps[l].on = "live") =>
            /\ \A cb \in CbIds :
                  /\ OnResult(l, key, cb) = "ok"
                  /\ OnRegistry(l, key, cb) = Registry
            /\ Occurrences(listeners[key], l) = 1
            /\ \A x \in Payloads :
                  (key[1] \in Plugins /\ caps[key[1]].emit = "live") =>
                     \A d \in DOMAIN delivered :
                        d[1] = l =>
                           EmitRegistry(key[1], key[2], x).dl[d] =
                              IF d = <<l, events[l][key].id, x>>
                              THEN delivered[d] + 1 ELSE delivered[d]

\* C17: off(E, ev) by a listener that holds no callback for (E, ev) returns
\* without an error and changes neither the lists nor the tables, whether
\* or not anybody ever subscribed to (E, ev).
C17_UnsubscribeAbsentIsNoOp ==
    \A l \in Plugins, key \in SubKeys :
        (l \in hasEvents /\ events[l][key] = NoCb /\ caps[l].off = "live") =>
            /\ OffResult(l, key) = "ok"
            /\ OffRegistry(l, key) = Registry

\* ------------------------------------------------- deactivation and events
\* The step completes a deactivatePlugin(p) that ran its hook.
Deactivates(p) == \E d \in DeactivationTasks(p) : Settles(d, "ok")
\* The step is the one in which an activatePlugin(p) installs the
\* capabilities.
Installs(p) ==
    \E a \in ActivationTasks(p) : a.pc = "isActive" /\ ~a.ans /\ Leaves(a)
\* The step invoked some callback of listener l.
Delivered(l) == \E d \in DOMAIN delivered : d[1] = l /\ delivered'[d] # delivered[d]

\* C14: the step that completes deactivatePlugin(p) leaves p in no listener
\* list and without a callback table; no step invokes a callback of p while
\* p has no table; the table an activation installs is empty, so that a
\* callback of p that is invoked was stored by a subscription made since.
C14_DeactivatedListenerPurged ==
    [][\A p \in Plugins :
         /\ Deactivates(p) =>
               /\ \A key \in EventKeys : ~Includes(listeners'[key], p)
               /\ p \notin hasEvents'
         /\ p \notin hasEvents => ~Delivered(p)
         /\ Installs(p) => (p \in hasEvents' /\ events'[p] = EmptyTable)
         /\ Delivered(p) =>
               \E key \in SubKeys :
                   /\ events[p][key] # NoCb
                   /\ \A d \in DOMAIN delivered :
                         (d[1] = p /\ delivered'[d] # delivered[d]) =>
                            d[2] = events[p][key].id]_vars

\* "A" subscribed and was told of the event, was deactivated, which took it
\* off the list, and after its reactivation subscribed again and was told of
\* the event a second time.
C14_Witness ==
    /\ deactivateCount["A"] = 1
    /\ activateCount["A"] = 2
    /\ delivered[<<"A", "cb1", "p1">>] = 2
    /\ Includes(listeners[<<"B", "ev">>], "A")
    /\ "A" \in hasEvents /\ events["A"][<<"B", "ev">>].id = "cb1"

\* C15: the step that completes deactivatePlugin(p) changes no table of
\* another plugin and takes no other plugin off any list; and an emit of p
\* invokes, once, the callback of every other plugin that is in the list of
\* the event and holds a callback for it, also after p was deactivated and
\* activated again.
C15_OtherSubscriptionsSurvive ==
    [][\A p \in Plugins : \A l \in Plugins \ {p} :
         /\ Deactivates(p) =>
               /\ l \in hasEvents' <=> l \in hasEvents
               /\ events'[l] = events[l]
               /\ \A key \in EventKeys :
                     Occurrences(listeners'[key], l) = Occurrences(listeners[key], l)
         /\ \A x \in Payloads :
               LET key == listenEvent(p, "ev") IN
               ( /\ Emit(p, "ev", x) /\ caps[p].emit = "live"
                 /\ key \in EventKeys
                 /\ Includes(listeners[key], l)
                 /\ l \in hasEvents /\ events[l][key] # NoCb )
               => delivered'[<<l, events[l][key].id, x>>] =
                     delivered[<<l, events[l][key].id, x>>] + 1]_vars

\* "B" has just been deactivated: its capabilities are the stand-ins, while
\* "A", which was told of B's event once, is still in the list of the event
\* and still holds its callback.
C15_Witness ==
    /\ AllDeactivated("B")
    /\ "B" \notin hasEvents
    /\ delivered[<<"A", "cb1", "p1">>] = 1
    /\ listeners[<<"B", "ev">>] = <<"A">>
    /\ "A" \in hasEvents /\ events["A"][<<"B", "ev">>].id = "cb1"

\* "B" was deactivated and activated again, and "A" was told of the event
\* before and after without subscribing again.
C15_Reactivated ==
    /\ deactivateCount["B"] = 1 /\ activateCount["B"] = 2 /\ AllLive("B")
    /\ delivered[<<"A", "cb1", "p1">>] = 2

\* ------------------------------------------------------------- app claims
\* The step settles the call t with `result`.
CallSettles(t, result) ==
    /\ t.pc # "done" /\ Leaves(t)
    /\ \E u \in BagToSet(tasks') :
          /\ Appears(u) /\ u.pc = "done" /\ u.result = result
          /\ u.kind = t.kind /\ u.caller = t.caller /\ u.target = t.target
          /\ u.method = t.method /\ u.via = t.via

\* C12: a call made through the app snapshot that gets as far as the
\* exposure check is handed to addRequest exactly if the method is in the
\* target's profile as the manager held it when the call was made, and fails
\* with MethodNotExposed if it is not, whatever the snapshot held.
C12_AppCallCheckedAgainstCurrentProfile ==
    [][\A t \in CallTasks :
         (t.via = "app"
          /\ (CallSettles(t, "dispatched") \/ CallSettles(t, "MethodNotExposed")))
         => (CallSettles(t, "dispatched") <=> t.method \in t.from.methods)]_vars

CallsUnderWay == \E t \in CallTasks : t.pc # "done"

C20_OriginCheckedBothWays ==
    ~isVscode =>
       /\ \A e \in handled : checkOrigin(e.origin)
       /\ \A e \in dropped : ~checkOrigin(e.origin)
       /\ origin # NoOrigin =>
             \E e \in handled :
                /\ isHandshake(e.data) /\ checkOrigin(e.origin)
                /\ origin = e.origin /\ source = e.source
       /\ origin = NoOrigin => source \in {ParentWindow, NoWindow}
       /\ \A p \in posted :
             /\ ~isHandshake(p.message) => p.bound # NoOrigin
             /\ p.bound # NoOrigin => p.target = p.bound /\ p.target \in GoodOrigins
             /\ p.target = Wildcard => isHandshake(p.message) /\ p.bound = NoOrigin

\* Outside VS Code: a handshake of the bad origin was dropped, a handshake
\* of a good origin bound the connector, a message that is no handshake was
\* posted to the bound origin, and a handshake had gone out to '*' before.
C20_Witness ==
    /\ constructed = "yes" /\ ~isVscode
    /\ origin \in GoodOrigins
    /\ received = MaxMessages /\ checking = {}
    /\ \E e \in handled : isHandshake(e.data)
    /\ \E e \in dropped : isHandshake(e.data) /\ ~checkOrigin(e.origin)
    /\ \E p \in posted : ~isHandshake(p.message) /\ p.target = origin
    /\ \E p \in posted : isHandshake(p.message) /\ p.target = Wildcard

====
